---- MODULE Spec2Model ----
(***************************************************************************)
(* Hospital backend: the wait-time store shared by POST /camera-frame,     *)
(* GET /camera-frame/{id} (apis/camera.py) and POST /nearby-hospitals      *)
(* (apis/nearby.py).                                                       *)
(*                                                                         *)
(* Conventions.  An optional value (Python None or a missing dict key) is  *)
(* the empty sequence << >>, a present value v is << v >>.  distance_km is *)
(* counted in hundredths of a kilometre and eta_minutes in tenths of a     *)
(* minute, the precision the handler rounds to.  List positions are        *)
(* 1-based; destinationIndex keeps the provider's 0-based numbering.       *)
(***************************************************************************)
EXTENDS Integers, Sequences, FiniteSets, TLC

\* ------------------------------------------------------------------ bounds
MaxClock == 2        \* records written to the store in one behaviour
MaxRows == 2         \* rows in one route-matrix response (ranking runs)

\* ------------------------------------------------------- program constants
RNG_MIN_PEOPLE == 20
RNG_MAX_PEOPLE == 40
RNG_PER_PERSON_MIN == 8
RNG_PER_PERSON_MAX == 15
PER_PERSON_FOR_CAMERA == 10
DEFAULT_PER_PERSON == 10
MIN_FRAME_BYTES == 100

HospitalIds == {"H1", "H2", "H3"}

None == << >>
Some(v) == << v >>

RECURSIVE SumSeq(_)
SumSeq(s) == IF s = << >> THEN 0 ELSE Head(s) + SumSeq(Tail(s))

\* --------------------------------------------------- wait_time (the store)
\* An uploaded image, named by what the occupancy engine sees in it.
Images == {"empty_room", "three_people"}

_count_people_from_image_b64(b64) ==
    CASE b64 = "empty_room" -> 0
      [] b64 = "three_people" -> 3

\* Full-record replace under the hospital id; the store stamps the time.
set_wait_for_hospital(st, hospital_id, record, clock) ==
    [h \in (DOMAIN st) \cup {hospital_id} |->
        IF h = hospital_id
        THEN [hospital_id |-> record.hospital_id,
              people |-> record.people,
              per_person_minutes |-> record.per_person_minutes,
              estimated_wait_minutes |-> record.estimated_wait_minutes,
              cameras |-> record.cameras,
              ts |-> clock]
        ELSE st[h]]

get_wait_for_hospital(st, hospital_id) ==
    IF hospital_id \in DOMAIN st THEN Some(st[hospital_id]) ELSE None

\* Python truthiness of what get_wait_for_hospital returns: None and the
\* empty dict are falsy, a stored record never is.
Truthy(opt) == opt # None

\* ------------------------------------------------------------- camera.py
\* CameraPushIn: per_person_minutes is Optional[int] with ge=1, le=60.
CameraPushInValid(body) ==
    body.per_person_minutes = None
    \/ (body.per_person_minutes[1] >= 1 /\ body.per_person_minutes[1] <= 60)

push_cams(images_b64) ==
    [i \in 1..Len(images_b64) |->
        [camera_id |-> i, people |-> _count_people_from_image_b64(images_b64[i])]]

push_counts(images_b64) ==
    [i \in 1..Len(images_b64) |-> _count_people_from_image_b64(images_b64[i])]

\* the request's minutes ignored
push_per_person_ignored(body) == DEFAULT_PER_PERSON

\* body.per_person_minutes or 10
push_per_person(body) ==
    IF body.per_person_minutes = None \/ body.per_person_minutes[1] = 0
    THEN DEFAULT_PER_PERSON
    ELSE body.per_person_minutes[1]

\* the estimate taken with the default minutes instead of the request's
push_record_default_minutes(body) ==
    LET per_person == push_per_person(body)
        total_people == SumSeq(push_counts(body.images_b64))
        est == total_people * DEFAULT_PER_PERSON
    IN  [hospital_id |-> body.hospital_id,
         people |-> total_people,
         per_person_minutes |-> per_person,
         estimated_wait_minutes |-> est,
         cameras |-> push_cams(body.images_b64)]

push_record(body) ==
    LET per_person == push_per_person(body)
        total_people == SumSeq(push_counts(body.images_b64))
        est == total_people * per_person
    IN  [hospital_id |-> body.hospital_id,
         people |-> total_people,
         per_person_minutes |-> per_person,
         estimated_wait_minutes |-> est,
         cameras |-> push_cams(body.images_b64)]

\* the images_b64 test left out: an upload without images is stored
push_frames_no_image_check(body, st, clock) ==
    IF ~CameraPushInValid(body)
    THEN [status |-> 422, body |-> None, store |-> st, writes |-> << >>]
    ELSE IF body.hospital_id = ""
    THEN [status |-> 400, body |-> None, store |-> st, writes |-> << >>]
    ELSE LET st2 == set_wait_for_hospital(st, body.hospital_id, push_record(body), clock)
             latest == get_wait_for_hospital(st2, body.hospital_id)
             log == << [id |-> body.hospital_id, ts |-> clock, by |-> "push",
                        record |-> push_record(body)] >>
         IN  [status |-> 200, body |-> latest, store |-> st2, writes |-> log]

\* POST /camera-frame: the response and the store it leaves.
push_frames(body, st, clock) ==
    IF ~CameraPushInValid(body)
    THEN [status |-> 422, body |-> None, store |-> st, writes |-> << >>]
    ELSE IF body.hospital_id = ""
    THEN [status |-> 400, body |-> None, store |-> st, writes |-> << >>]
    ELSE IF body.images_b64 = << >>
    THEN [status |-> 400, body |-> None, store |-> st, writes |-> << >>]
    ELSE LET st2 == set_wait_for_hospital(st, body.hospital_id, push_record(body), clock)
             latest == get_wait_for_hospital(st2, body.hospital_id)
             log == << [id |-> body.hospital_id, ts |-> clock, by |-> "push",
                        record |-> push_record(body)] >>
         IN  IF ~Truthy(latest)
             THEN [status |-> 500, body |-> None, store |-> st2, writes |-> log]
             ELSE [status |-> 200, body |-> latest, store |-> st2, writes |-> log]

\* a record counting nobody taken for no record
get_latest_camera_estimate_falsy_people(hospital_id, st) ==
    LET rec == get_wait_for_hospital(st, hospital_id)
    IN  IF ~Truthy(rec) \/ rec[1].people = 0
        THEN [status |-> 404, body |-> None]
        ELSE [status |-> 200, body |-> rec]

\* GET /camera-frame/{hospital_id}
get_latest_camera_estimate(hospital_id, st) ==
    LET rec == get_wait_for_hospital(st, hospital_id)
    IN  IF ~Truthy(rec)
        THEN [status |-> 404, body |-> None]
        ELSE [status |-> 200, body |-> rec]

\* ------------------------------------------------------------- nearby.py
\* round(x / d, k) on a value that is no exact tie (ties go to the even side)
RoundDiv(n, d) ==
    LET q == n \div d
        r == n % d
    IN  IF 2 * r < d THEN q
        ELSE IF 2 * r > d THEN q + 1
        ELSE IF q % 2 = 0 THEN q ELSE q + 1

\* A duration is the provider's string: its text before the last character
\* and that last character ("600s" is [text |-> 600, suffix |-> "s"]).
_parse_duration_seconds(val) ==
    IF val.suffix = "s" THEN Some(val.text) ELSE None

\* _places_nearby_hospitals: the candidates, or the provider's failure
_places_nearby_hospitals(answer) ==
    IF ~answer.ok
    THEN [raised |-> TRUE, status |-> answer.status, places |-> << >>]
    ELSE [raised |-> FALSE, status |-> 200, places |-> answer.places]

\* a failed call taken for an empty matrix
_route_matrix_failure_as_empty(dests, answer) ==
    IF dests = << >> \/ ~answer.ok
    THEN [raised |-> FALSE, status |-> 200, rows |-> << >>]
    ELSE [raised |-> FALSE, status |-> 200, rows |-> answer.rows]

\* _route_matrix: no provider call for an empty destination list
_route_matrix(dests, answer) ==
    IF dests = << >>
    THEN [raised |-> FALSE, status |-> 200, rows |-> << >>]
    ELSE IF ~answer.ok
    THEN [raised |-> TRUE, status |-> answer.status, rows |-> << >>]
    ELSE [raised |-> FALSE, status |-> 200, rows |-> answer.rows]

\* the status test left out
RowAccepted_any_status(row) == row.condition = "ROUTE_EXISTS"

\* the two `continue` tests of the correlation loop
RowAccepted(row) ==
    /\ row.status_code = 0
    /\ row.condition = "ROUTE_EXISTS"

\* round(None / 60.0, 1): a duration that does not parse raises TypeError
RowRaises(row) ==
    /\ RowAccepted(row)
    /\ row.duration # None
    /\ _parse_duration_seconds(row.duration[1]) = None

RowStats(row) ==
    [dist_km |-> IF row.distanceMeters # None
                 THEN Some(RoundDiv(row.distanceMeters[1], 10)) ELSE None,
     eta_min |-> IF row.duration # None
                 THEN Some(RoundDiv(_parse_duration_seconds(row.duration[1])[1], 6))
                 ELSE None]

RECURSIVE BuildStats(_, _)
\* stats[di] = (dist_km, eta_min), later rows replacing earlier ones
BuildStats(matrix, stats) ==
    IF matrix = << >> THEN [raised |-> FALSE, stats |-> stats]
    ELSE LET row == Head(matrix)
         IN  IF ~RowAccepted(row) THEN BuildStats(Tail(matrix), stats)
             ELSE IF RowRaises(row) THEN [raised |-> TRUE, stats |-> stats]
             ELSE BuildStats(Tail(matrix),
                     [di \in (DOMAIN stats) \cup {row.destinationIndex} |->
                         IF di = row.destinationIndex THEN RowStats(row) ELSE stats[di]])

NoStats == [dist_km |-> None, eta_min |-> None]

\* the row built for the candidate at 0-based position i
BuildItem(p, i, stats, st) ==
    LET s == IF i \in DOMAIN stats THEN stats[i] ELSE NoStats
        wt == get_wait_for_hospital(st, p.id)
    IN  [hospital_id |-> p.id,
         distance_km |-> s.dist_km,
         eta_minutes |-> s.eta_min,
         wait |-> IF Truthy(wt)
                  THEN Some([current_people |-> wt[1].people,
                             current_estimated_wait_minutes |-> wt[1].estimated_wait_minutes,
                             wait_last_updated |-> wt[1].ts])
                  ELSE None,
         camera |-> None]

\* rows built from the correlated routes instead of from the candidates
BuildItems_routed_only(places, stats, st) ==
    LET idxs == SelectSeq([k \in 1..Len(places) |-> k], LAMBDA k : (k - 1) \in DOMAIN stats)
    IN  [j \in 1..Len(idxs) |-> BuildItem(places[idxs[j]], idxs[j] - 1, stats, st)]

BuildItems(places, stats, st) ==
    [k \in 1..Len(places) |-> BuildItem(places[k], k - 1, stats, st)]

\* Comparing the sort keys (eta is None, eta, distance) of two rows raises
\* TypeError when the first two parts agree and one distance is None.
KeyPrefixEqual(a, b) == a.eta_minutes = b.eta_minutes
KeysIncomparable(a, b) ==
    /\ KeyPrefixEqual(a, b)
    /\ (a.distance_km = None) # (b.distance_km = None)

SortRaises(items) ==
    \E i, j \in 1..Len(items) : KeysIncomparable(items[i], items[j])

\* key(a) < key(b) for comparable keys
KeyLess(a, b) ==
    IF (a.eta_minutes = None) # (b.eta_minutes = None)
    THEN b.eta_minutes = None
    ELSE IF a.eta_minutes # None /\ a.eta_minutes[1] # b.eta_minutes[1]
    THEN a.eta_minutes[1] < b.eta_minutes[1]
    ELSE IF a.distance_km # None /\ b.distance_km # None
    THEN a.distance_km[1] < b.distance_km[1]
    ELSE FALSE

RECURSIVE InsertSorted_before_equals(_, _)
\* x goes before the elements equal to it
InsertSorted_before_equals(x, sorted) ==
    IF sorted = << >> THEN << x >>
    ELSE IF ~KeyLess(Head(sorted), x) THEN << x >> \o sorted
    ELSE << Head(sorted) >> \o InsertSorted_before_equals(x, Tail(sorted))

RECURSIVE InsertSorted(_, _)
\* x goes after every element that is not greater than it
InsertSorted(x, sorted) ==
    IF sorted = << >> THEN << x >>
    ELSE IF KeyLess(x, Head(sorted)) THEN << x >> \o sorted
    ELSE << Head(sorted) >> \o InsertSorted(x, Tail(sorted))

RECURSIVE SortItems(_, _)
\* items.sort(key=...): a stable sort
SortItems(items, sorted) ==
    IF items = << >> THEN sorted
    ELSE SortItems(Tail(items), InsertSorted(Head(items), sorted))

\* the configured id ignored: always the first row
TargetIdx_first_always(items, c) == IF items # << >> THEN 1 ELSE 0

\* target_idx as a 1-based position, 0 for Python's None
TargetIdx(items, c) ==
    LET hits == {k \in 1..Len(items) : items[k].hospital_id = c.PRIMARY_CAMERA_ID}
    IN  IF c.PRIMARY_CAMERA_ID # "" /\ hits # {}
        THEN CHOOSE k \in hits : \A m \in hits : k <= m
        ELSE IF items # << >> THEN 1 ELSE 0

\* the size test left out
_fetch_camera_bytes_any_size(frame) == IF ~frame.ok THEN None ELSE Some(frame)

\* A camera's answer: whether the HTTP call succeeded, the size of the body
\* and the people the engine sees in the frame.
_fetch_camera_bytes(frame) ==
    IF ~frame.ok THEN None
    ELSE IF frame.size < MIN_FRAME_BYTES THEN None
    ELSE Some(frame)

CameraDetail(i, frame) ==
    LET img == _fetch_camera_bytes(frame)
    IN  IF img = None
        THEN [camera_id |-> i, people |-> 0, status |-> "no_image"]
        ELSE [camera_id |-> i, people |-> img[1].people, status |-> "ok"]

_capture_and_count(camera_urls, env) ==
    IF camera_urls = << >>
    THEN [raised |-> FALSE, total |-> 0, details |-> << >>]
    ELSE IF ~env.openai_ready
    THEN [raised |-> TRUE, total |-> 0, details |-> << >>]
    ELSE LET details == [i \in 1..Len(camera_urls) |-> CameraDetail(i, env.frames[i])]
         IN  [raised |-> FALSE,
              total |-> SumSeq([i \in 1..Len(details) |-> details[i].people]),
              details |-> details]

\* the live block: capture now and override the target row
LiveCapture(items, target_idx, env, clock, c) ==
    IF target_idx = 0 \/ c.PRIMARY_CAMERA_URLS = << >>
    THEN [items |-> items, clock |-> clock]
    ELSE LET cap == _capture_and_count(c.PRIMARY_CAMERA_URLS, env)
         IN  IF cap.raised
             THEN [items |-> [items EXCEPT ![target_idx].camera =
                                 Some([used |-> FALSE, cameras |-> << >>])],
                   clock |-> clock]
             ELSE [items |-> [items EXCEPT
                        ![target_idx].wait =
                            Some([current_people |-> cap.total,
                                  current_estimated_wait_minutes |->
                                      cap.total * PER_PERSON_FOR_CAMERA,
                                  wait_last_updated |-> clock]),
                        ![target_idx].camera =
                            Some([used |-> TRUE, cameras |-> cap.details])],
                   clock |-> clock]

\* the cached-wait test left out
RngRow_over_cached(items, idx, target_idx, c) ==
    /\ idx # target_idx
    /\ c.ENABLE_MOCK_RNG

\* the target test left out
RngRow_over_target(items, idx, target_idx, c) ==
    /\ items[idx].wait = None
    /\ c.ENABLE_MOCK_RNG

\* the rows the RNG loop does not skip
RngRow(items, idx, target_idx, c) ==
    /\ idx # target_idx
    /\ items[idx].wait = None
    /\ c.ENABLE_MOCK_RNG

RngRecord(hospital_id, draw) ==
    LET rng_people == draw.people
        per_person == draw.per_person
        est == rng_people * per_person
    IN  [hospital_id |-> hospital_id,
         people |-> rng_people,
         per_person_minutes |-> per_person,
         estimated_wait_minutes |-> est,
         cameras |-> << [camera_id |-> 0, people |-> rng_people] >>]

RECURSIVE RngLoop(_, _, _, _, _, _, _, _)
RngLoop(items, idx, target_idx, draws, st, clock, writes, c) ==
    IF idx > Len(items)
    THEN [items |-> items, store |-> st, clock |-> clock, writes |-> writes]
    ELSE IF ~RngRow(items, idx, target_idx, c)
    THEN RngLoop(items, idx + 1, target_idx, draws, st, clock, writes, c)
    ELSE LET hid == items[idx].hospital_id
             st2 == set_wait_for_hospital(st, hid, RngRecord(hid, Head(draws)), clock)
             wt == get_wait_for_hospital(st2, hid)
             row == [items[idx] EXCEPT !.wait =
                        Some([current_people |-> wt[1].people,
                              current_estimated_wait_minutes |-> wt[1].estimated_wait_minutes,
                              wait_last_updated |-> wt[1].ts])]
         IN  RngLoop([items EXCEPT ![idx] = row], idx + 1, target_idx, Tail(draws),
                     st2, clock + 1,
                     Append(writes, [id |-> hid, ts |-> clock, by |-> "rng",
                                     record |-> RngRecord(hid, Head(draws))]), c)

Failed(status, st, clock) ==
    [status |-> status, hospitals |-> << >>, count |-> 0, target_idx |-> 0,
     store |-> st, clock |-> clock, writes |-> << >>]

\* the handler up to and including the sort
Ranked(places_answer, matrix_answer, st) ==
    LET pl == _places_nearby_hospitals(places_answer)
        mx == _route_matrix(pl.places, matrix_answer)
        bs == BuildStats(mx.rows, << >>)
        items == BuildItems(pl.places, bs.stats, st)
    IN  IF pl.raised THEN [status |-> pl.status, items |-> << >>]
        ELSE IF mx.raised THEN [status |-> mx.status, items |-> << >>]
        ELSE IF bs.raised THEN [status |-> 500, items |-> << >>]
        ELSE IF SortRaises(items) THEN [status |-> 500, items |-> << >>]
        ELSE [status |-> 200, items |-> SortItems(items, << >>)]

\* POST /nearby-hospitals
nearby(places_answer, matrix_answer, env, draws, st, clock, c) ==
    LET rk == Ranked(places_answer, matrix_answer, st)
    IN  IF rk.status # 200 THEN Failed(rk.status, st, clock)
        ELSE LET target_idx == TargetIdx(rk.items, c)
                 live == LiveCapture(rk.items, target_idx, env, clock, c)
                 out == RngLoop(live.items, 1, target_idx, draws, st, live.clock, << >>, c)
             IN  [status |-> 200, hospitals |-> out.items, count |-> Len(out.items),
                  target_idx |-> target_idx,
                  store |-> out.store, clock |-> out.clock, writes |-> out.writes]

\* how many draw pairs the RNG loop of this request consumes
DrawsNeeded(places_answer, matrix_answer, st, c) ==
    LET rk == Ranked(places_answer, matrix_answer, st)
        t == TargetIdx(rk.items, c)
    IN  Cardinality({k \in 1..Len(rk.items) : RngRow(rk.items, k, t, c)})

\* ---------------------------------------------------------------- state
VARIABLES
    store,    \* the wait-time store: hospital id -> latest record
    now,      \* the clock the store stamps records with
    cfg,      \* the process configuration read from the environment
    resp,     \* the last request served and its response
    written,  \* per hospital id, the last set_wait_for_hospital call made for it
    tasks     \* the requests being served at the same time, each with its
              \* position in its handler and its local variables

vars == << store, now, cfg, resp, written, tasks >>

Configs ==
    [ENABLE_MOCK_RNG : BOOLEAN,
     PRIMARY_CAMERA_ID : {"", "H2"},
     PRIMARY_CAMERA_URLS : {<< >>, << "u1", "u2" >>}]

NoRequest ==
    [op |-> "none", request |-> << >>, t0 |-> 0, status |-> 0, body |-> None,
     target_idx |-> 0]

Init ==
    /\ store = << >>
    /\ now = 0
    /\ cfg \in Configs
    /\ resp = NoRequest
    /\ written = [h \in HospitalIds |-> None]
    /\ tasks = << >>

RECURSIVE NoteWrites(_, _)
\* the history of writes, in the order the handler made them
NoteWrites(w, writes) ==
    IF writes = << >> THEN w
    ELSE NoteWrites([w EXCEPT ![Head(writes).id] = Some(Head(writes))], Tail(writes))

\* three well-formed uploads for each hospital, and one push for each way of
\* being rejected
Uploads ==
    {[images_b64 |-> << "empty_room" >>, per_person_minutes |-> None],
     [images_b64 |-> << "empty_room", "three_people" >>, per_person_minutes |-> Some(12)],
     [images_b64 |-> << "three_people", "three_people" >>, per_person_minutes |-> Some(12)]}

PushBodies ==
    {[hospital_id |-> h, images_b64 |-> u.images_b64,
      per_person_minutes |-> u.per_person_minutes] : h \in HospitalIds, u \in Uploads}
    \cup {[hospital_id |-> "", images_b64 |-> << "three_people" >>, per_person_minutes |-> None],
          [hospital_id |-> "H1", images_b64 |-> << >>, per_person_minutes |-> None],
          [hospital_id |-> "", images_b64 |-> << >>, per_person_minutes |-> None],
          [hospital_id |-> "H1", images_b64 |-> << "three_people" >>, per_person_minutes |-> Some(0)]}

Idle == resp.op = "none"

PushFrames ==
    /\ Idle
    /\ \E body \in PushBodies :
        LET r == push_frames(body, store, now)
        IN  /\ now + Len(r.writes) <= MaxClock
            /\ store' = r.store
            /\ now' = now + Len(r.writes)
            /\ written' = NoteWrites(written, r.writes)
            /\ resp' = [op |-> "push", request |-> body, t0 |-> now,
                        status |-> r.status, body |-> r.body, target_idx |-> 0]
            /\ UNCHANGED << cfg, tasks >>

GetLatestCameraEstimate ==
    /\ Idle
    /\ \E h \in HospitalIds :
        LET r == get_latest_camera_estimate(h, store)
        IN  /\ resp' = [op |-> "get", request |-> h, t0 |-> now,
                        status |-> r.status, body |-> r.body, target_idx |-> 0]
            /\ UNCHANGED << store, now, cfg, written, tasks >>

\* ---- what the providers, the cameras and the random source can answer
Candidate(h) == [id |-> h]

\* place search returns each hospital once, in the provider's order
CandidateLists ==
    {[k \in 1..n |-> Candidate(<< "H1", "H2", "H3" >>[k])] : n \in 0..3}

PlacesFailure == [ok |-> FALSE, status |-> 403, places |-> << >>]
PlacesAnswers ==
    {PlacesFailure} \cup {[ok |-> TRUE, status |-> 200, places |-> p] : p \in CandidateLists}

MatrixFailure == [ok |-> FALSE, status |-> 429, rows |-> << >>]

RouteRow(code, cond, di, dist, dur) ==
    [status_code |-> code, condition |-> cond, destinationIndex |-> di,
     distanceMeters |-> dist, duration |-> dur]

Dur(text, suffix) == Some([text |-> text, suffix |-> suffix])

GoodRow(di) == RouteRow(0, "ROUTE_EXISTS", di, Some(5000), Dur(600, "s"))

\* the route answers of the store runs: no row at all, or one good row
ApiMatrices(n) ==
    {MatrixFailure}
    \cup {[ok |-> TRUE, status |-> 200, rows |-> << >>]}
    \cup {[ok |-> TRUE, status |-> 200, rows |-> << GoodRow(di) >>] : di \in 0..(n - 1)}

FrameLost == [ok |-> FALSE, size |-> 0, people |-> 0]
FrameTiny == [ok |-> TRUE, size |-> MIN_FRAME_BYTES - 1, people |-> 2]
FrameGood == [ok |-> TRUE, size |-> MIN_FRAME_BYTES, people |-> 4]

EngineDown == [openai_ready |-> FALSE, frames |-> << >>]
LiveEnvs(c) ==
    IF c.PRIMARY_CAMERA_URLS = << >> THEN {EngineDown}
    ELSE {EngineDown,
          [openai_ready |-> TRUE, frames |-> << FrameGood, FrameGood >>],
          [openai_ready |-> TRUE, frames |-> << FrameLost, FrameTiny >>],
          [openai_ready |-> TRUE, frames |-> << FrameTiny, FrameGood >>]}

\* the upper end taken as exclusive of nothing: one past the range
randint_past_end(a, b) == {a, b + 1}

\* random.randint(a, b) returns any n with a <= n <= b; the runs draw the
\* two ends of the range
randint(a, b) == {n \in a..b : n = a \/ n = b}

Draws ==
    [people : randint(RNG_MIN_PEOPLE, RNG_MAX_PEOPLE),
     per_person : randint(RNG_PER_PERSON_MIN, RNG_PER_PERSON_MAX)]

NearbyStep(pa, ma, env) ==
    \E draws \in [1..DrawsNeeded(pa, ma, store, cfg) -> Draws] :
        LET r == nearby(pa, ma, env, draws, store, now, cfg)
        IN  /\ r.clock <= MaxClock
            /\ store' = r.store
            /\ now' = r.clock
            /\ written' = NoteWrites(written, r.writes)
            /\ resp' = [op |-> "nearby",
                        request |-> [places |-> pa, matrix |-> ma, env |-> env],
                        t0 |-> now, status |-> r.status,
                        body |-> IF r.status = 200
                                 THEN Some([count |-> r.count, hospitals |-> r.hospitals])
                                 ELSE None,
                        target_idx |-> r.target_idx]
            /\ UNCHANGED << cfg, tasks >>

NearbyHospitals ==
    /\ Idle
    /\ \E pa \in PlacesAnswers :
        \E ma \in ApiMatrices(Len(pa.places)), env \in LiveEnvs(cfg) :
            NearbyStep(pa, ma, env)

\* the response has gone out; the next request can come in
Respond ==
    /\ ~Idle
    /\ resp' = NoRequest
    /\ UNCHANGED << store, now, cfg, written, tasks >>

Next == PushFrames \/ GetLatestCameraEstimate \/ NearbyHospitals \/ Respond

Spec == Init /\ [][Next]_vars

\* ------------------------------------------------------------ ranking runs
\* One request per run, over every short route matrix, on a process with no
\* occupancy source configured.
RoutePayloads ==
    {<< Some(5000), Dur(600, "s") >>, << Some(12000), Dur(600, "s") >>,
     << Some(5000), Dur(900, "s") >>, << None, Dur(600, "s") >>,
     << Some(5000), None >>, << None, None >>, << Some(5000), Dur(10, "m") >>}

RouteRows(n) ==
    {RouteRow(0, "ROUTE_EXISTS", di, pl[1], pl[2]) : di \in 0..n, pl \in RoutePayloads}
    \cup {RouteRow(5, "ROUTE_EXISTS", di, Some(5000), Dur(600, "s")) : di \in 0..n}
    \cup {RouteRow(0, "ROUTE_NOT_FOUND", di, None, None) : di \in 0..n}

RankMatrices(n) ==
    {[ok |-> TRUE, status |-> 200, rows |-> rows] :
        rows \in UNION {[1..k -> RouteRows(n)] : k \in 0..MaxRows}}

RankRequests(pa) ==
    {[places |-> pa, matrix |-> ma, env |-> EngineDown] :
        ma \in RankMatrices(Len(pa.places))}

InitRank ==
    /\ store = << >>
    /\ now = 0
    /\ cfg = [ENABLE_MOCK_RNG |-> FALSE, PRIMARY_CAMERA_ID |-> "",
              PRIMARY_CAMERA_URLS |-> << >>]
    /\ \E pa \in PlacesAnswers \ {PlacesFailure} :
          \E rq \in RankRequests(pa) :
              resp = [op |-> "pending", request |-> rq, t0 |-> 0, status |-> 0,
                      body |-> None, target_idx |-> 0]
    /\ written = [h \in HospitalIds |-> None]
    /\ tasks = << >>

RankNearby ==
    /\ resp.op = "pending"
    /\ NearbyStep(resp.request.places, resp.request.matrix, resp.request.env)

NextRank == RankNearby

SpecRank == InitRank /\ [][NextRank]_vars

\* --------------------------------------------------------- concurrent runs
\* Two requests served at the same time by the worker threads.  A handler is
\* a sequence of steps, one per call into the store; the steps of the two
\* requests interleave in every order.  The provider calls of a nearby
\* request are over when the run starts: place search has answered and there
\* is no route.

\* a record with only the counted fields renewed, the others kept
push_store_update(body, st, clock) ==
    LET rec == push_record(body)
    IN  IF body.hospital_id \in DOMAIN st
        THEN [st EXCEPT ![body.hospital_id].people = rec.people,
                        ![body.hospital_id].estimated_wait_minutes =
                            rec.estimated_wait_minutes,
                        ![body.hospital_id].ts = clock]
        ELSE set_wait_for_hospital(st, body.hospital_id, rec, clock)

\* push_frames: the record built and handed to the store in one call
push_store(body, st, clock) ==
    set_wait_for_hospital(st, body.hospital_id, push_record(body), clock)

\* nearby: the synthetic record built and handed to the store in one call
rng_store(hospital_id, draw, st, clock) ==
    set_wait_for_hospital(st, hospital_id, RngRecord(hospital_id, draw), clock)

\* what a row shows of a record read back from the store
RowWait(wt) ==
    Some([current_people |-> wt[1].people,
          current_estimated_wait_minutes |-> wt[1].estimated_wait_minutes,
          wait_last_updated |-> wt[1].ts])

ConcPushBodies ==
    {[hospital_id |-> h, images_b64 |-> u.images_b64,
      per_person_minutes |-> u.per_person_minutes] :
        h \in {"H1", "H2"},
        u \in {[images_b64 |-> << "empty_room" >>, per_person_minutes |-> None],
               [images_b64 |-> << "three_people", "three_people" >>,
                per_person_minutes |-> Some(12)]}}

ConcPlaces == << Candidate("H1"), Candidate("H2") >>

NewTask(kind, req) ==
    [kind |-> kind, req |-> req, pc |-> "start", i |-> 0, items |-> << >>,
     target_idx |-> 0, writes |-> << >>, status |-> 0, body |-> None]

ConcTasks ==
    {NewTask("push", b) : b \in ConcPushBodies} \cup {NewTask("nearby", ConcPlaces)}

ConcConfigs ==
    [ENABLE_MOCK_RNG : {TRUE}, PRIMARY_CAMERA_ID : {"", "H2"},
     PRIMARY_CAMERA_URLS : {<< >>}]

InitConc ==
    /\ store = << >>
    /\ now = 0
    /\ cfg \in ConcConfigs
    /\ resp = NoRequest
    /\ written = [h \in HospitalIds |-> None]
    /\ tasks \in [1..2 -> ConcTasks]

\* one call of set_wait_for_hospital, as the task that made it remembers it
WriteEntry(hospital_id, by, record) ==
    [id |-> hospital_id, ts |-> now, by |-> by, record |-> record,
     replaced |-> hospital_id \in DOMAIN store]

\* push_frames, line 46
ConcPushSet ==
    \E t \in DOMAIN tasks :
        LET body == tasks[t].req
            w == WriteEntry(body.hospital_id, "push", push_record(body))
        IN  /\ tasks[t].kind = "push" /\ tasks[t].pc = "start"
            /\ store' = push_store(body, store, now)
            /\ now' = now + 1
            /\ written' = NoteWrites(written, << w >>)
            /\ tasks' = [tasks EXCEPT ![t].pc = "stored", ![t].writes = << w >>]
            /\ UNCHANGED << cfg, resp >>

\* push_frames, lines 47-50
ConcPushGet ==
    \E t \in DOMAIN tasks :
        LET latest == get_wait_for_hospital(store, tasks[t].req.hospital_id)
        IN  /\ tasks[t].kind = "push" /\ tasks[t].pc = "stored"
            /\ tasks' = [tasks EXCEPT ![t].pc = "done",
                            ![t].status = IF Truthy(latest) THEN 200 ELSE 500,
                            ![t].body = IF Truthy(latest) THEN latest ELSE None]
            /\ UNCHANGED << store, now, cfg, resp, written >>

\* nearby, lines 177-198: one pass of the loop, one read of the store
ConcNearbyRead ==
    \E t \in DOMAIN tasks :
        LET places == tasks[t].req
            i == tasks[t].i
        IN  /\ tasks[t].kind = "nearby" /\ tasks[t].pc = "start"
            /\ i < Len(places)
            /\ tasks' = [tasks EXCEPT
                            ![t].items = Append(@, BuildItem(places[i + 1], i, << >>, store)),
                            ![t].i = i + 1]
            /\ UNCHANGED << store, now, cfg, resp, written >>

\* nearby, lines 201-224: the sort, the target and the live block
ConcNearbyRank ==
    \E t \in DOMAIN tasks :
        LET items == SortItems(tasks[t].items, << >>)
            target_idx == TargetIdx(items, cfg)
            live == LiveCapture(items, target_idx, EngineDown, now, cfg)
        IN  /\ tasks[t].kind = "nearby" /\ tasks[t].pc = "start"
            /\ tasks[t].i = Len(tasks[t].req)
            /\ ~SortRaises(tasks[t].items)
            /\ tasks' = [tasks EXCEPT ![t].pc = "rng", ![t].items = live.items,
                            ![t].target_idx = target_idx, ![t].i = 1]
            /\ UNCHANGED << store, now, cfg, resp, written >>

\* nearby, lines 228-234: a row the RNG loop passes over
ConcNearbySkip ==
    \E t \in DOMAIN tasks :
        /\ tasks[t].kind = "nearby" /\ tasks[t].pc = "rng"
        /\ tasks[t].i <= Len(tasks[t].items)
        /\ ~RngRow(tasks[t].items, tasks[t].i, tasks[t].target_idx, cfg)
        /\ tasks' = [tasks EXCEPT ![t].i = @ + 1]
        /\ UNCHANGED << store, now, cfg, resp, written >>

\* nearby, lines 235-245: the draw and the write
ConcNearbySet ==
    \E t \in DOMAIN tasks :
        /\ tasks[t].kind = "nearby" /\ tasks[t].pc = "rng"
        /\ tasks[t].i <= Len(tasks[t].items)
        /\ RngRow(tasks[t].items, tasks[t].i, tasks[t].target_idx, cfg)
        /\ \E draw \in Draws :
              LET hid == tasks[t].items[tasks[t].i].hospital_id
                  w == WriteEntry(hid, "rng", RngRecord(hid, draw))
              IN  /\ store' = rng_store(hid, draw, store, now)
                  /\ now' = now + 1
                  /\ written' = NoteWrites(written, << w >>)
                  /\ tasks' = [tasks EXCEPT ![t].pc = "rng_stored",
                                  ![t].writes = Append(@, w)]
        /\ UNCHANGED << cfg, resp >>

\* nearby, lines 246-249: the record read back into the row
ConcNearbyGet ==
    \E t \in DOMAIN tasks :
        LET i == tasks[t].i
            wt == get_wait_for_hospital(store, tasks[t].items[i].hospital_id)
        IN  /\ tasks[t].kind = "nearby" /\ tasks[t].pc = "rng_stored"
            /\ tasks' = [tasks EXCEPT ![t].pc = "rng", ![t].i = i + 1,
                            ![t].items[i].wait = RowWait(wt)]
            /\ UNCHANGED << store, now, cfg, resp, written >>

\* nearby, line 251
ConcNearbyReturn ==
    \E t \in DOMAIN tasks :
        /\ tasks[t].kind = "nearby" /\ tasks[t].pc = "rng"
        /\ tasks[t].i > Len(tasks[t].items)
        /\ tasks' = [tasks EXCEPT ![t].pc = "done", ![t].status = 200,
                        ![t].body = Some([count |-> Len(tasks[t].items),
                                          hospitals |-> tasks[t].items])]
        /\ UNCHANGED << store, now, cfg, resp, written >>

NextConc ==
    \/ ConcPushSet
    \/ ConcPushGet
    \/ ConcNearbyRead
    \/ ConcNearbyRank
    \/ ConcNearbySkip
    \/ ConcNearbySet
    \/ ConcNearbyGet
    \/ ConcNearbyReturn

SpecConc == InitConc /\ [][NextConc]_vars

\* ================================================================ claims
NearbyOk(r) == r.op = "nearby" /\ r.status = 200
Hospitals(r) == r.body[1].hospitals

\* the record a write leaves in the store: the caller's fields and the stamp
Stamped(w) ==
    [hospital_id |-> w.record.hospital_id,
     people |-> w.record.people,
     per_person_minutes |-> w.record.per_person_minutes,
     estimated_wait_minutes |-> w.record.estimated_wait_minutes,
     cameras |-> w.record.cameras,
     ts |-> w.ts]

\* C1: every record held in the wait-time store has
\* estimated_wait_minutes = people * per_person_minutes.
C1_EstimateIsProduct ==
    \A h \in DOMAIN store :
        store[h].estimated_wait_minutes = store[h].people * store[h].per_person_minutes

\* a pushed record with people present beside a synthetic one
C1_Witness ==
    \E h, g \in DOMAIN store :
        /\ written[h][1].by = "push"
        /\ store[h].people > 0
        /\ store[h].per_person_minutes # DEFAULT_PER_PERSON
        /\ written[g][1].by = "rng"

\* the people each image of a push counts for, and their sum
ImageCounts(images) == [i \in 1..Len(images) |-> _count_people_from_image_b64(images[i])]
\* the minutes of a push: the request's, 10 when omitted
Minutes(body) ==
    IF body.per_person_minutes = None THEN 10 ELSE body.per_person_minutes[1]

PushedAsAsked(rec, body) ==
    /\ rec.hospital_id = body.hospital_id
    /\ rec.people = SumSeq(ImageCounts(body.images_b64))
    /\ rec.per_person_minutes = Minutes(body)
    /\ rec.estimated_wait_minutes = SumSeq(ImageCounts(body.images_b64)) * Minutes(body)

\* ---- correlation and ranking
Candidates(r) == r.request.places.places
MatrixRows(r) == r.request.matrix.rows

\* the 1-based position in the candidate list of the row's hospital
InputPos(r, row) == CHOOSE k \in 1..Len(Candidates(r)) : Candidates(r)[k].id = row.hospital_id

ErrorFree(row) == row.status_code = 0 /\ row.condition = "ROUTE_EXISTS"

\* the matrix rows that count for the candidate at 0-based position i
RowsFor(r, i) ==
    {j \in 1..Len(MatrixRows(r)) :
        ErrorFree(MatrixRows(r)[j]) /\ MatrixRows(r)[j].destinationIndex = i}

LastRowFor(r, i) == MatrixRows(r)[CHOOSE j \in RowsFor(r, i) : \A m \in RowsFor(r, i) : m <= j]

ProviderFailed(r) ==
    \/ ~r.request.places.ok
    \/ (r.request.places.places # << >> /\ ~r.request.matrix.ok)

ProviderStatus(r) ==
    IF ~r.request.places.ok THEN r.request.places.status ELSE r.request.matrix.status

\* C4: when the place-search call or the route-matrix call fails, nearby
\* ends with the provider's error and no hospitals list, and the store is as
\* it was before the request.
C4_AbortLeavesStore ==
    [][(resp'.op = "nearby" /\ ProviderFailed(resp')) =>
          /\ resp'.status = ProviderStatus(resp')
          /\ resp'.body = None
          /\ store' = store
          /\ written' = written]_vars

\* a failed route-matrix call for three candidates, two of which a completed
\* request would have given a synthetic record
C4_Witness ==
    /\ resp.op = "nearby"
    /\ resp.request.places.ok
    /\ ~resp.request.matrix.ok
    /\ resp.status = 429
    /\ cfg.ENABLE_MOCK_RNG
    /\ Len(Candidates(resp)) = 3
    /\ DOMAIN store = {"H1"}

\* C5: after an accepted push for h the store holds for h the record with
\* people = c1+...+cn, the request's minutes (10 when omitted) and their
\* product, the push answers with it, and a GET for h with no write for h in
\* between returns exactly that record.
C5_PushThenGet ==
    /\ (resp.op = "push" /\ resp.status = 200) =>
          /\ resp.request.hospital_id \in DOMAIN store
          /\ PushedAsAsked(store[resp.request.hospital_id], resp.request)
          /\ resp.body = Some(store[resp.request.hospital_id])
    /\ \A h \in HospitalIds :
          (written[h] # None /\ written[h][1].by = "push") =>
            /\ h \in DOMAIN store
            /\ store[h].ts = written[h][1].ts
            /\ store[h].people = SumSeq([i \in 1..Len(store[h].cameras) |->
                                            store[h].cameras[i].people])
            /\ (resp.op = "get" /\ resp.request = h) =>
                  /\ resp.status = 200
                  /\ resp.body = Some(store[h])

\* a GET answering with a pushed two-image record with the request's minutes
C5_Witness ==
    /\ resp.op = "get"
    /\ resp.status = 200
    /\ written[resp.request][1].by = "push"
    /\ Len(resp.body[1].cameras) = 2
    /\ resp.body[1].people = 6
    /\ resp.body[1].per_person_minutes = 12
    /\ resp.body[1].estimated_wait_minutes = 72

\* C6: GET /camera-frame/h answers 404 exactly when no record was ever
\* written for h; a written record is never deleted, and a GET returns the
\* record of the most recent write for h.
C6_GetLatest ==
    /\ \A h \in HospitalIds : (written[h] # None) <=> (h \in DOMAIN store)
    /\ resp.op = "get" =>
          /\ (resp.status = 404) <=> (written[resp.request] = None)
          /\ written[resp.request] # None =>
                /\ resp.status = 200
                /\ resp.body = Some(Stamped(written[resp.request][1]))

\* a GET answered after the record for its hospital was overwritten
C6_Witness ==
    /\ resp.op = "get"
    /\ resp.status = 200
    /\ resp.body[1].ts > 0
    /\ written[resp.request][1].by = "push"
    /\ DOMAIN store = {resp.request}

\* ---- occupancy resolution
Cached(rec) ==
    Some([current_people |-> rec.people,
          current_estimated_wait_minutes |-> rec.estimated_wait_minutes,
          wait_last_updated |-> rec.ts])

TargetRow(r) == Hospitals(r)[r.target_idx]

\* C7: a hospital that is not the live hospital and has a record in the
\* store is returned with the stored people and estimate, and its record is
\* left as it was.
C7_CachedUsedUnchanged ==
    [][NearbyOk(resp') =>
          \A k \in 1..Len(Hospitals(resp')) :
              LET row == Hospitals(resp')[k]
                  h == row.hospital_id
              IN  (k # resp'.target_idx /\ h \in DOMAIN store) =>
                      /\ row.wait = Cached(store[h])
                      /\ store'[h] = store[h]]_vars

\* a nearby request, fallback on, listing off the live position a hospital
\* whose record came from an earlier push
C7_Witness ==
    /\ NearbyOk(resp)
    /\ cfg.ENABLE_MOCK_RNG
    /\ \E k \in 1..Len(Hospitals(resp)) :
          LET row == Hospitals(resp)[k]
              h == row.hospital_id
          IN  /\ k # resp.target_idx
              /\ written[h] # None
              /\ written[h][1].by = "push"
              /\ written[h][1].ts < resp.t0
              /\ row.wait = Cached(store[h])

\* what the synthetic fallback must do for the row at position k
SyntheticFor(r, k, before, after) ==
    LET row == Hospitals(r)[k]
        h == row.hospital_id
    IN  /\ row.wait # None
        /\ row.wait[1].current_people \in RNG_MIN_PEOPLE..RNG_MAX_PEOPLE
        /\ h \in DOMAIN after
        /\ after[h].hospital_id = h
        /\ after[h].people = row.wait[1].current_people
        /\ after[h].people \in RNG_MIN_PEOPLE..RNG_MAX_PEOPLE
        /\ after[h].per_person_minutes \in RNG_PER_PERSON_MIN..RNG_PER_PERSON_MAX
        /\ \A g \in DOMAIN before : after[g] = before[g]

\* the statement of C8 as claimed: with fallback enabled, every listed
\* hospital without a record gets a synthetic figure in range, written under
\* its own id, with every other record left alone.
C8_AsClaimed ==
    [][(NearbyOk(resp') /\ cfg.ENABLE_MOCK_RNG) =>
          \A k \in 1..Len(Hospitals(resp')) :
              Hospitals(resp')[k].hospital_id \notin DOMAIN store =>
                  SyntheticFor(resp', k, store, store')]_vars

\* C8 (amended): with fallback enabled, every listed hospital without a
\* record that is not the request's live hospital gets people in 20..40 and
\* per_person_minutes in 8..15, written under its own id; no record that
\* was in the store changes, and no other id gains a record.
C8_SyntheticOffTarget ==
    [][(NearbyOk(resp') /\ cfg.ENABLE_MOCK_RNG) =>
          /\ \A k \in 1..Len(Hospitals(resp')) :
                (k # resp'.target_idx
                    /\ Hospitals(resp')[k].hospital_id \notin DOMAIN store) =>
                    SyntheticFor(resp', k, store, store')
          /\ \A g \in (DOMAIN store') \ (DOMAIN store) :
                \E k \in 1..Len(Hospitals(resp')) :
                    k # resp'.target_idx /\ Hospitals(resp')[k].hospital_id = g]_vars

\* a request that drew a synthetic record for one hospital while the store
\* held an older record of another
C8_Witness ==
    /\ NearbyOk(resp)
    /\ cfg.ENABLE_MOCK_RNG
    /\ \E k \in 1..Len(Hospitals(resp)) :
          LET h == Hospitals(resp)[k].hospital_id
          IN  /\ k # resp.target_idx
              /\ written[h] # None
              /\ written[h][1].by = "rng"
              /\ written[h][1].ts >= resp.t0
              /\ \E g \in DOMAIN store : g # h /\ store[g].ts < resp.t0

LiveCaptured(r) ==
    /\ NearbyOk(r)
    /\ r.target_idx # 0
    /\ TargetRow(r).camera # None
    /\ TargetRow(r).camera[1].used
    /\ \E i \in 1..Len(TargetRow(r).camera[1].cameras) :
          TargetRow(r).camera[1].cameras[i].status = "ok"

\* the statement of C9: a live reading captured for the live hospital (at
\* least one camera frame counted) is in the store under that hospital's id
\* when the request has been served.
C9_AsClaimed ==
    LiveCaptured(resp) =>
        LET row == TargetRow(resp)
            h == row.hospital_id
        IN  /\ h \in DOMAIN store
            /\ store[h].people = row.wait[1].current_people
            /\ store[h].estimated_wait_minutes = row.wait[1].current_estimated_wait_minutes

EngineUnavailable(r) ==
    /\ r.op = "nearby"
    /\ ~ProviderFailed(r)
    /\ r.request.places.places # << >>
    /\ cfg.PRIMARY_CAMERA_URLS # << >>
    /\ ~r.request.env.openai_ready

ExpectedLive(r) ==
    LET hits == {k \in 1..Len(Hospitals(r)) :
                    Hospitals(r)[k].hospital_id = cfg.PRIMARY_CAMERA_ID}
    IN  IF cfg.PRIMARY_CAMERA_ID # "" /\ hits # {} THEN CHOOSE k \in hits : TRUE
        ELSE IF Hospitals(r) # << >> THEN 1 ELSE 0

CaptureRan(r) ==
    /\ NearbyOk(r)
    /\ Hospitals(r) # << >>
    /\ cfg.PRIMARY_CAMERA_URLS # << >>
    /\ r.request.env.openai_ready

\* C12: in every served nearby request the live hospital is the one whose id
\* is PRIMARY_CAMERA_ID when that id is listed, otherwise the first row of the
\* ranked list; no other row carries a camera reading; and when cameras are
\* configured and the capture succeeds that row's occupancy is the live
\* reading (people counted now, times the camera minutes, stamped now),
\* whatever the store holds for it.
C12_LiveDesignation ==
    NearbyOk(resp) =>
        /\ resp.target_idx = ExpectedLive(resp)
        /\ Cardinality({k \in 1..Len(Hospitals(resp)) :
                            Hospitals(resp)[k].camera # None}) <= 1
        /\ \A k \in 1..Len(Hospitals(resp)) :
              Hospitals(resp)[k].camera # None =>
                  k = ExpectedLive(resp) /\ cfg.PRIMARY_CAMERA_URLS # << >>
        /\ CaptureRan(resp) =>
              LET row == Hospitals(resp)[ExpectedLive(resp)]
                  cams == row.camera[1].cameras
                  people == SumSeq([i \in 1..Len(cams) |-> cams[i].people])
              IN  /\ row.camera # None
                  /\ row.camera[1].used
                  /\ row.wait = Some([current_people |-> people,
                                      current_estimated_wait_minutes |->
                                          people * PER_PERSON_FOR_CAMERA,
                                      wait_last_updated |-> resp.t0])

\* the configured hospital, ranked second, read live over an older stored
\* record that says something else
C12_Witness ==
    /\ CaptureRan(resp)
    /\ cfg.PRIMARY_CAMERA_ID = "H2"
    /\ resp.target_idx = 2
    /\ TargetRow(resp).hospital_id = "H2"
    /\ "H2" \in DOMAIN store
    /\ store["H2"].ts < resp.t0
    /\ TargetRow(resp).wait[1].current_people = 8
    /\ store["H2"].people # 8
    /\ Hospitals(resp)[1].camera = None

\* ---- rejected uploads
EmptyUpload(body) == body.hospital_id = "" \/ body.images_b64 = << >>

\* C13: a POST /camera-frame whose hospital_id or images_b64 is empty is
\* answered 400 with no record, and the store is as it was before it.
C13_EmptyUploadRejected ==
    [][(resp'.op = "push" /\ EmptyUpload(resp'.request)) =>
          /\ resp'.status = 400
          /\ resp'.body = None
          /\ store' = store
          /\ written' = written]_vars

\* an upload without images for a hospital that has a record, rejected
C13_Witness ==
    /\ resp.op = "push"
    /\ resp.request.images_b64 = << >>
    /\ resp.request.hospital_id \in DOMAIN store
    /\ resp.status = 400

\* the statement of C14: with no camera configured every listed hospital,
\* the first-ranked one included, shows its stored record or, with fallback
\* enabled, a synthetic one.
C14_AsClaimed ==
    [][(NearbyOk(resp') /\ cfg.PRIMARY_CAMERA_URLS = << >>) =>
          \A k \in 1..Len(Hospitals(resp')) :
              LET row == Hospitals(resp')[k]
                  h == row.hospital_id
              IN  IF h \in DOMAIN store THEN row.wait = Cached(store[h])
                  ELSE cfg.ENABLE_MOCK_RNG => SyntheticFor(resp', k, store, store')]_vars

\* ---- per-camera containment
FrameFetched(frame) == frame.ok /\ frame.size >= MIN_FRAME_BYTES

\* C15: when the capture runs, the live row lists every configured camera
\* once, in configured order; a camera whose frame was not fetched or is
\* under 100 bytes is listed with no people and marked no_image, the others
\* with the people counted in their frame; and the live people total is the
\* sum over the fetched frames.
C15_CameraContainment ==
    CaptureRan(resp) =>
        LET frames == resp.request.env.frames
            row == TargetRow(resp)
            cams == row.camera[1].cameras
            counted == [i \in 1..Len(frames) |->
                           IF FrameFetched(frames[i]) THEN frames[i].people ELSE 0]
        IN  /\ row.camera[1].used
            /\ Len(cams) = Len(cfg.PRIMARY_CAMERA_URLS)
            /\ \A i \in 1..Len(cams) :
                  /\ cams[i].camera_id = i
                  /\ cams[i].people = counted[i]
                  /\ cams[i].status = IF FrameFetched(frames[i]) THEN "ok" ELSE "no_image"
            /\ row.wait # None
            /\ row.wait[1].current_people = SumSeq(counted)

\* a capture whose first frame is too small and whose second is counted
C15_Witness ==
    /\ CaptureRan(resp)
    /\ resp.request.env.frames = << FrameTiny, FrameGood >>
    /\ TargetRow(resp).camera[1].cameras[1].status = "no_image"
    /\ TargetRow(resp).camera[1].cameras[2].status = "ok"
    /\ TargetRow(resp).wait[1].current_people = 4

\* ---- malformed route matrices
\* an error-free ROUTE_EXISTS row with a distance and a duration that parses
WellFormedRow(row) ==
    /\ ErrorFree(row)
    /\ row.distanceMeters # None
    /\ row.duration # None
    /\ row.duration[1].suffix = "s"

\* the statement of C16, for the rows nearby reads the index of: a request
\* for N >= 1 candidates whose route matrix has a well-formed row with a
\* destination index outside 0..N-1 does not succeed.
C16_AsClaimed ==
    (resp.op = "nearby"
        /\ Candidates(resp) # << >>
        /\ \E j \in 1..Len(MatrixRows(resp)) :
              /\ WellFormedRow(MatrixRows(resp)[j])
              /\ MatrixRows(resp)[j].destinationIndex \notin 0..(Len(Candidates(resp)) - 1))
    => resp.status # 200

\* ---- the list as a whole
\* C19: the list of a served nearby request has each candidate of the place
\* search exactly once and nothing else, and count is its length.
C19_Permutation ==
    NearbyOk(resp) =>
        /\ resp.body[1].count = Len(Hospitals(resp))
        /\ Len(Hospitals(resp)) = Len(Candidates(resp))
        /\ \A k \in 1..Len(Candidates(resp)) :
              Cardinality({m \in 1..Len(Hospitals(resp)) :
                              Hospitals(resp)[m].hospital_id = Candidates(resp)[k].id}) = 1

\* three candidates, the second ranked first, with a live reading and a
\* synthetic record among them
C19_Witness ==
    /\ NearbyOk(resp)
    /\ resp.body[1].count = 3
    /\ Hospitals(resp)[1].hospital_id = Candidates(resp)[2].id
    /\ Hospitals(resp)[1].camera # None
    /\ \E k \in 2..3 : /\ Hospitals(resp)[k].wait # None
                       /\ Hospitals(resp)[k].wait[1].wait_last_updated >= resp.t0

\* ---- concurrent requests
\* every call of set_wait_for_hospital made so far for hospital h
WritesFor(h) ==
    {w \in UNION {{tasks[t].writes[j] : j \in 1..Len(tasks[t].writes)} :
                      t \in DOMAIN tasks} : w.id = h}

TaskDone(t) == tasks[t].pc = "done" /\ tasks[t].status = 200

C17_AsClaimed ==
    \A t \in DOMAIN tasks :
        (tasks[t].kind = "push" /\ TaskDone(t)) =>
            PushedAsAsked(tasks[t].body[1], tasks[t].req)

\* the statement of C18: no synthetic write replaces a record that is in the
\* store at the moment of the write, and two nearby requests served at the
\* same time show the same occupancy for a hospital that is live in neither.
C18_AsClaimed ==
    /\ \A t \in DOMAIN tasks :
          \A j \in 1..Len(tasks[t].writes) :
              tasks[t].writes[j].by = "rng" => ~tasks[t].writes[j].replaced
    /\ \A t, u \in DOMAIN tasks :
          (tasks[t].kind = "nearby" /\ tasks[u].kind = "nearby"
              /\ TaskDone(t) /\ TaskDone(u)) =>
            \A k \in 1..Len(tasks[t].items), m \in 1..Len(tasks[u].items) :
                (tasks[t].items[k].hospital_id = tasks[u].items[m].hospital_id
                    /\ k # tasks[t].target_idx /\ m # tasks[u].target_idx) =>
                  tasks[t].items[k].wait = tasks[u].items[m].wait

====
